---- MODULE Spec2Model ----
(***************************************************************************)
(* ztrack: the event recording core.  A Tracker is a handle over one       *)
(* reference-counted EventRecorder, which owns one EventReporter per       *)
(* reporter name; each reporter buffers events and appends them as lines   *)
(* to its file.  The model follows src/ztrack/tracker.py and               *)
(* src/ztrack/__init__.py.  ztrack.create builds its recorder from         *)
(* ztrack.event_recorder, which is not among the sources; the recorder     *)
(* modelled is the EventRecorder class of tracker.py.  Clock readings (ts, *)
(* perf_ts) are left out of the events: no operation branches on them.     *)
(***************************************************************************)
EXTENDS Integers, Sequences, FiniteSets, TLC

\* Bounds of the model.
MaxTrackers == 3
MaxEvents == 3
MaxFinalize == 2

\* EventReporter.__init__: num_buffers defaults to 10, and _get_reporter
\* never passes another value.
NumBuffers == 10

VARIABLES
    dry_run,     \* EventRecorder._dry_run
    share_cnt,   \* EventRecorder._share_cnt
    span_id,     \* EventRecorder._span_id
    reporters,   \* EventRecorder._reporters: name -> EventReporter
    files,       \* the result directory: file name -> written lines
    trackers,    \* the Tracker objects, by handle (1 is the one create returned)
    spans,       \* the span context managers entered and not yet left
    deleted,     \* EventRecorder.__del__ has run
    artifact_id, \* EventRecorder._artifact_id
    callbacks,   \* EventRecorder._event_record_callbacks: each callback is
                 \* given by what it does when called, return or raise
    dirs,        \* the directories the recorder has created
    exc,         \* the exception the last operation let through to its
                 \* caller, "" when it returned
    created,     \* history: number of EventReporter objects constructed
    fin_calls,   \* history: finalize() calls received, per EventReporter object
    emitted,     \* history: the calls of EventRecorder.record_event, in order
    terminated,  \* history: unshare has brought the share count to zero
    span_evts,   \* history: per span invocation, the positions in emitted of
                 \* the events it recorded
    misused,     \* history: a Tracker was used, or finalized again by its
                 \* owner, after its finalize
    batch,       \* history: per Tracker, the (fields, meta) arguments of its
                 \* track calls since its last commit, whether the last
                 \* call committed, the number of its commits and the
                 \* number of its track calls
    span_log,    \* history: per span invocation, the id allocated for it
                 \* and the name given
    cb_calls,    \* history: the callback invocations, in order
    save_calls,  \* history: the paths save_func was called with, in order
    art_log,     \* history: the save_artifact calls, with what each returned
    last         \* history: the operation that produced this state

vars == <<dry_run, share_cnt, span_id, reporters, files, trackers, spans,
          deleted, artifact_id, callbacks, dirs, exc, created, fin_calls,
          emitted, terminated, span_evts, misused, batch, span_log,
          cb_calls, save_calls, art_log, last>>

----------------------------------------------------------------------------
\* Dictionaries

EmptyMap == [k \in {} |-> ""]

\* {**a, **b} and a.update(b): the keys of both, b's value on a common key.
Merge(a, b) ==
    [k \in (DOMAIN a) \cup (DOMAIN b) |-> IF k \in DOMAIN b THEN b[k] ELSE a[k]]

----------------------------------------------------------------------------
\* The recorder and its reporters, as one record so that the steps of a
\* handler compose.  An operation starts with no exception in flight.

World ==
    [dry_run |-> dry_run, share_cnt |-> share_cnt, span_id |-> span_id,
     reporters |-> reporters, files |-> files, trackers |-> trackers,
     created |-> created, fin_calls |-> fin_calls, emitted |-> emitted,
     terminated |-> terminated, span_evts |-> span_evts,
     artifact_id |-> artifact_id, callbacks |-> callbacks, dirs |-> dirs,
     cb_calls |-> cb_calls, save_calls |-> save_calls, art_log |-> art_log,
     span_log |-> span_log,
     exc |-> ""]

Commit(w) ==
    /\ dry_run' = w.dry_run
    /\ share_cnt' = w.share_cnt
    /\ span_id' = w.span_id
    /\ reporters' = w.reporters
    /\ files' = w.files
    /\ trackers' = w.trackers
    /\ created' = w.created
    /\ fin_calls' = w.fin_calls
    /\ emitted' = w.emitted
    /\ terminated' = w.terminated
    /\ span_evts' = w.span_evts
    /\ artifact_id' = w.artifact_id
    /\ callbacks' = w.callbacks
    /\ dirs' = w.dirs
    /\ cb_calls' = w.cb_calls
    /\ save_calls' = w.save_calls
    /\ art_log' = w.art_log
    /\ span_log' = w.span_log
    /\ exc' = w.exc

ResultDir == "result_dir"
ArtifactsDir == "result_dir/artifacts"

FileName(name) == name \o ".event.json"

\* EventReporter.__init__: opens the file in mode a+ (created when missing,
\* the lines it holds kept), an empty buffer, _evt_id = 0.
NewReporter(w, name) ==
    [w EXCEPT
        !.reporters = [n \in (DOMAIN w.reporters) \cup {name} |->
                          IF n = name
                          THEN [evt_id |-> 0, buffers |-> <<>>, open |-> TRUE,
                                oid |-> w.created + 1]
                          ELSE w.reporters[n]],
        !.files = [f \in (DOMAIN w.files) \cup {FileName(name)} |->
                      IF f \in DOMAIN w.files THEN w.files[f] ELSE <<>>],
        !.created = w.created + 1,
        !.fin_calls = Append(w.fin_calls, 0)]

\* EventRecorder._get_reporter: the reporter of that name, constructed on
\* first use.
GetReporter(w, name) ==
    IF name \in DOMAIN w.reporters THEN w ELSE NewReporter(w, name)

\* As Flush, had the buffer not been reset after the write.
FlushKeepsBuffer(w, name) ==
    [w EXCEPT !.files[FileName(name)] = @ \o w.reporters[name].buffers]

\* EventReporter._flush: every buffered event becomes one line of the file,
\* in buffer order; the buffer is emptied.  On a closed file the first
\* write, or with an empty buffer the file's flush(), raises ValueError.
Flush(w, name) ==
    IF ~w.reporters[name].open
    THEN [w EXCEPT !.exc = "ValueError"]
    ELSE [w EXCEPT
            !.files[FileName(name)] = @ \o w.reporters[name].buffers,
            !.reporters[name].buffers = <<>>]

\* EventReporter._get_evt_id
GetEvtId(rep) == rep.evt_id + 1

\* As ReporterRecordEvent, had the flush been due as soon as the buffer
\* holds num_buffers events.
ReporterRecordEventAtThreshold(w, name, evt) ==
    LET id == GetEvtId(w.reporters[name])
        w1 == [w EXCEPT
                 !.reporters[name].evt_id = id,
                 !.reporters[name].buffers =
                     Append(@, [evt EXCEPT !.id = ToString(id)])]
    IN  IF Len(w1.reporters[name].buffers) >= NumBuffers
        THEN Flush(w1, name)
        ELSE w1

\* EventReporter.record_event: the next id, append, flush when the buffer
\* holds more than num_buffers events.
ReporterRecordEvent(w, name, evt) ==
    LET id == GetEvtId(w.reporters[name])
        w1 == [w EXCEPT
                 !.reporters[name].evt_id = id,
                 !.reporters[name].buffers =
                     Append(@, [evt EXCEPT !.id = ToString(id)])]
    IN  IF Len(w1.reporters[name].buffers) > NumBuffers
        THEN Flush(w1, name)
        ELSE w1

\* EventReporter.finalize: flush, then close the file.  fin_calls counts
\* the calls (history).
ReporterFinalize(w, name) ==
    LET w1 == [Flush(w, name) EXCEPT !.fin_calls[w.reporters[name].oid] = @ + 1]
    IN  IF w1.exc # "" THEN w1
        ELSE [w1 EXCEPT !.reporters[name].open = FALSE]

RECURSIVE FinalizeEach(_, _)
FinalizeEach(w, names) ==
    IF names = {} THEN w
    ELSE LET n == CHOOSE x \in names : TRUE
         IN  FinalizeEach(ReporterFinalize(w, n), names \ {n})

\* EventRecorder._finalize: finalize every reporter of the map, then clear
\* the map.
RecorderFinalize(w) ==
    [FinalizeEach(w, DOMAIN w.reporters) EXCEPT !.reporters = EmptyMap]

\* EventRecorder.share
Share(w) == [w EXCEPT !.share_cnt = @ + 1]

\* EventRecorder.unshare
Unshare(w) ==
    LET w1 == [w EXCEPT !.share_cnt = @ - 1]
    IN  IF w1.share_cnt = 0
        THEN [RecorderFinalize(w1) EXCEPT !.terminated = TRUE]
        ELSE w1

\* EventRecorder.next_span_id
NextSpanId(w) == [w EXCEPT !.span_id = @ + 1]

\* As GetArtifactId, had the counter not been advanced.
KeepArtifactId(w) == w

\* EventRecorder._get_artifact_id
GetArtifactId(w) == [w EXCEPT !.artifact_id = @ + 1]

\* As RecorderSaveArtifact, had save_func been called in dry-run as well.
RecorderSaveArtifactAlways(w, save_func, prefix, persist_name, format, meta) ==
    LET fmt  == IF format = "" THEN "bin" ELSE format
        pfx  == IF prefix = "" THEN "data" ELSE prefix
        w1   == GetArtifactId(w)
        name == IF persist_name # "" THEN persist_name
                ELSE pfx \o "_" \o ToString(w1.artifact_id)
        artifact_name == name \o "." \o fmt
        w2   == [w1 EXCEPT
                    !.save_calls = Append(@, ArtifactsDir \o "/" \o artifact_name),
                    !.exc = IF save_func = "raises" THEN "SaveError" ELSE ""]
    IN  [w2 EXCEPT !.art_log = Append(@,
            [prefix |-> prefix, persist_name |-> persist_name,
             format |-> format, meta |-> meta, id |-> w1.artifact_id,
             ret |-> IF w2.exc # "" THEN <<>>
                     ELSE <<[type |-> "artifact", url |-> artifact_name,
                             format |-> fmt, meta |-> meta]>>])]

\* EventRecorder.save_artifact.  The data is opaque to the recorder and left
\* out; save_func is given by what it does when called, "ok" or "raises",
\* and its exception goes through to the caller.  art_log notes the call,
\* the id it drew and what it returned, if it returned (history).
RecorderSaveArtifact(w, save_func, prefix, persist_name, format, meta) ==
    LET fmt  == IF format = "" THEN "bin" ELSE format
        pfx  == IF prefix = "" THEN "data" ELSE prefix
        w1   == GetArtifactId(w)
        name == IF persist_name # "" THEN persist_name
                ELSE pfx \o "_" \o ToString(w1.artifact_id)
        artifact_name == name \o "." \o fmt
        w2   == IF ~w.dry_run
                THEN [w1 EXCEPT
                        !.save_calls =
                            Append(@, ArtifactsDir \o "/" \o artifact_name),
                        !.exc = IF save_func = "raises" THEN "SaveError"
                                ELSE ""]
                ELSE w1
    IN  [w2 EXCEPT !.art_log = Append(@,
            [prefix |-> prefix, persist_name |-> persist_name,
             format |-> format, meta |-> meta, id |-> w1.artifact_id,
             ret |-> IF w2.exc # "" THEN <<>>
                     ELSE <<[type |-> "artifact", url |-> artifact_name,
                             format |-> fmt, meta |-> meta]>>])]

\* EventRecorder.register_callback
RegisterCallback(w, cb) == [w EXCEPT !.callbacks = Append(@, cb)]

\* As Dispatch, had the call of the callback not been inside try/except.
RECURSIVE DispatchUncaught(_, _, _, _)
DispatchUncaught(w, evt, name, i) ==
    IF i > Len(w.callbacks) THEN w
    ELSE LET w1 == [w EXCEPT !.cb_calls =
                        Append(@, [cb |-> i, evt |-> evt, reporter |-> name,
                                   caught |-> FALSE])]
         IN  IF w.callbacks[i].raises THEN [w1 EXCEPT !.exc = "Exception"]
             ELSE DispatchUncaught(w1, evt, name, i + 1)

\* The loop of EventRecorder.record_event over the callbacks, from the i-th
\* on: callback(evt, reporter) inside try/except Exception, so an exception
\* of a callback is logged as a warning (caught) and the loop goes on.
RECURSIVE Dispatch(_, _, _, _)
Dispatch(w, evt, name, i) ==
    IF i > Len(w.callbacks) THEN w
    ELSE Dispatch(
            [w EXCEPT !.cb_calls =
                Append(@, [cb |-> i, evt |-> evt, reporter |-> name,
                           caught |-> w.callbacks[i].raises])],
            evt, name, i + 1)

\* EventRecorder.record_event: hand the event to the reporter unless dry-run,
\* then call the callbacks.  The event object is the one the reporter stamps
\* with its id.
RecorderRecordEvent(w, evt, name) ==
    LET w1 == IF ~w.dry_run
              THEN ReporterRecordEvent(GetReporter(w, name), name, evt)
              ELSE w
        e  == IF ~w.dry_run
              THEN [evt EXCEPT !.id = ToString(w1.reporters[name].evt_id)]
              ELSE evt
        w2 == [w1 EXCEPT !.emitted = Append(@, [reporter |-> name, evt |-> e])]
    IN  IF w2.exc # "" THEN w2 ELSE Dispatch(w2, e, name, 1)

----------------------------------------------------------------------------
\* Tracker

\* As SettingMerge, had record_log_event been taken from the new settings
\* also when it is None there.
SettingMergeOverwrite(old, new) ==
    [reporter |-> IF new.reporter # "" THEN new.reporter ELSE old.reporter,
     meta |-> Merge(old.meta, new.meta),
     record_log_event |-> new.record_log_event]

\* TrackerSetting.merge.  record_log_event is None, True or False.
SettingMerge(old, new) ==
    [reporter |-> IF new.reporter # "" THEN new.reporter ELSE old.reporter,
     meta |-> Merge(old.meta, new.meta),
     record_log_event |-> IF new.record_log_event # "None"
                          THEN new.record_log_event
                          ELSE old.record_log_event]

\* Tracker.__init__.  _fields refers to the dict object it is given:
\* fields_of names that object by the handle of the Tracker it was built
\* for, so that two Trackers with the same fields_of share one dict.
NewTracker(settings, fields, fields_of) ==
    [state |-> "live", fin |-> 0, settings |-> settings, fields |-> fields,
     fields_of |-> fields_of, tracks_buf |-> <<>>]

\* A write into the dict object named obj (d[k] = v, d.update(m)): every
\* Tracker whose _fields is that object sees it.  The object 0 is a dict no
\* Tracker refers to.
StoreInDict(w, obj, m) ==
    [w EXCEPT !.trackers =
        [u \in DOMAIN w.trackers |->
            IF w.trackers[u].fields_of = obj
            THEN [w.trackers[u] EXCEPT !.fields = Merge(@, m)]
            ELSE w.trackers[u]]]

\* As CreateEvent, had the event's data been the Tracker's _fields dict
\* itself and not a copy of it.
CreateEventSharesFields(w, tr, meta, type) ==
    [uid |-> Len(w.emitted) + 1,
     id |-> "",
     type |-> type,
     meta |-> IF meta # EmptyMap THEN Merge(meta, tr.settings.meta)
              ELSE tr.settings.meta,
     data |-> tr.fields,
     data_of |-> tr.fields_of]

\* Tracker._create_event: a given non-empty meta is updated with the
\* settings' meta (every caller passes a dict it has just built),
\* otherwise the settings' meta is taken; data is a copy of the fields, a
\* dict object of its own (data_of 0).  uid stands for the identity of the
\* Event object.
CreateEvent(w, tr, meta, type) ==
    [uid |-> Len(w.emitted) + 1,
     id |-> "",
     type |-> type,
     meta |-> IF meta # EmptyMap THEN Merge(meta, tr.settings.meta)
              ELSE tr.settings.meta,
     data |-> tr.fields,
     data_of |-> 0]

\* Tracker._record_event
TrackerRecordEvent(w, tr, evt) ==
    RecorderRecordEvent(w, evt,
        IF tr.settings.reporter = "" THEN "default" ELSE tr.settings.reporter)

\* As TrackerClone, had the new Tracker been given the pending items of
\* this one.
TrackerCloneWithBuf(w, t) ==
    [Share(w) EXCEPT
        !.trackers = Append(@, [NewTracker(w.trackers[t].settings,
                                           w.trackers[t].fields,
                                           w.trackers[t].fields_of)
                                EXCEPT !.tracks_buf = w.trackers[t].tracks_buf])]

\* Tracker.clone: a new Tracker on the shared recorder, with the settings
\* and fields of this one and an empty _tracks_buf.  Its handle is
\* Len(w.trackers) + 1.
TrackerClone(w, t) ==
    [Share(w) EXCEPT
        !.trackers = Append(@, NewTracker(w.trackers[t].settings,
                                          w.trackers[t].fields,
                                          w.trackers[t].fields_of))]

\* Tracker.with_settings
TrackerWithSettings(w, t, reporter, meta, rle) ==
    LET new_settings == SettingMerge(w.trackers[t].settings,
                            [reporter |-> reporter, meta |-> meta,
                             record_log_event |-> rle])
    IN  [TrackerClone(w, t) EXCEPT
            !.trackers[Len(w.trackers) + 1].settings = new_settings]

\* Tracker.with_fields: new_fields is a dict of its own.
TrackerWithFields(w, t, fields) ==
    LET new_fields == Merge(w.trackers[t].fields, fields)
    IN  [TrackerClone(w, t) EXCEPT
            !.trackers[Len(w.trackers) + 1].fields = new_fields,
            !.trackers[Len(w.trackers) + 1].fields_of = Len(w.trackers) + 1]

\* As UpdateFields, had the first value of a key been kept.
RECURSIVE UpdateFieldsKeepFirst(_, _)
UpdateFieldsKeepFirst(acc, buf) ==
    IF buf = <<>> THEN acc
    ELSE UpdateFieldsKeepFirst(Merge(Head(buf).fields, acc), Tail(buf))

\* The loops of Tracker.track over _tracks_buf: an item's fields (meta)
\* update the accumulated ones when they are not empty.
RECURSIVE UpdateFields(_, _)
UpdateFields(acc, buf) ==
    IF buf = <<>> THEN acc
    ELSE UpdateFields(
            IF Head(buf).fields # EmptyMap THEN Merge(acc, Head(buf).fields)
            ELSE acc,
            Tail(buf))

RECURSIVE UpdateMeta(_, _)
UpdateMeta(acc, buf) ==
    IF buf = <<>> THEN acc
    ELSE UpdateMeta(
            IF Head(buf).meta # EmptyMap THEN Merge(acc, Head(buf).meta)
            ELSE acc,
            Tail(buf))

\* The event Tracker.track commits for the buffered items buf: the meta
\* built by the loop goes through _create_event, the data built by the loop
\* replaces the event's data.
TrackEvent(w, tr, buf) ==
    [CreateEvent(w, tr, UpdateMeta(tr.settings.meta, buf), "") EXCEPT
        !.type = "z.tk",
        !.data = UpdateFields(tr.fields, buf),
        !.data_of = 0]

\* Tracker.track
TrackerTrack(w, t, fields, meta, commit) ==
    LET tr  == w.trackers[t]
        buf == Append(tr.tracks_buf, [fields |-> fields, meta |-> meta])
    IN  IF commit
        THEN [TrackerRecordEvent(w, tr, TrackEvent(w, tr, buf)) EXCEPT
                 !.trackers[t].tracks_buf = <<>>]
        ELSE [w EXCEPT !.trackers[t].tracks_buf = buf]

\* Tracker.log: the "z.log" event, recorded when record_log_event is set;
\* log.level and log.msg are stored into the event's data dict.  The line
\* written to the process logger is not modelled.
TrackerLog(w, t, level, msg) ==
    LET tr    == w.trackers[t]
        evt   == CreateEvent(w, tr, EmptyMap, "")
        entry == ("log.level" :> level) @@ ("log.msg" :> msg)
        w1    == StoreInDict(w, evt.data_of, entry)
    IN  IF tr.settings.record_log_event = "True"
        THEN TrackerRecordEvent(w1, w1.trackers[t],
                 [evt EXCEPT !.type = "z.log", !.data = Merge(@, entry)])
        ELSE w

\* Tracker.Artifact
TrackerArtifact(w, t, save_func, prefix, persist_name, format, meta) ==
    RecorderSaveArtifact(w, save_func, prefix, persist_name, format, meta)

\* Tracker.finalize.  fin counts the calls (history).
TrackerFinalize(w, t) ==
    [Unshare(w) EXCEPT !.trackers[t].fin = @ + 1]

\* Tracker.__del__: finalize; the object is gone.
TrackerDel(w, t) ==
    [TrackerFinalize(w, t) EXCEPT !.trackers[t].state = "dead"]

\* elapsed_ms of Tracker.span: (elapsed_ns / 10 ** 6) * 100 // 100
ElapsedMs(elapsed_ns) == ((elapsed_ns * 100) \div 1000000) \div 100

SpanMeta(sid, name) == ("span.id" :> sid) @@ ("span.name" :> name)

\* The events recorded between world w and the later world w1 are added to
\* span invocation k (history).
NoteSpanEvents(w, w1, k) ==
    [w1 EXCEPT
        !.span_evts[k] = @ \o [i \in 1..(Len(w1.emitted) - Len(w.emitted)) |->
                                   Len(w.emitted) + i]]

\* Tracker.span up to its yield: a fresh span id, a child Tracker carrying
\* span.id and span.name in its settings' meta, and the "started" event,
\* created by this Tracker (self) and recorded through the child.
SpanStart(w, t, name) ==
    LET w1    == NextSpanId(w)
        sid   == ToString(w1.span_id)
        w2    == TrackerWithSettings(w1, t, "", SpanMeta(sid, name), "None")
        child == w2.trackers[Len(w2.trackers)]
        evt   == CreateEvent(w2, w2.trackers[t],
                     SpanMeta(sid, name) @@ ("span.event" :> "started"),
                     "z.span")
        w3    == TrackerRecordEvent(w2, child, evt)
    IN  NoteSpanEvents(w,
            [w3 EXCEPT !.span_evts = Append(@, <<>>),
                       !.span_log = Append(@, [span_id |-> sid,
                                               name |-> name])],
            Len(w.span_evts) + 1)

\* The finally block of Tracker.span.  With log_end_span a temporary Tracker
\* logs 'span end'; when the interpreter collects the temporary at once
\* (gc), its __del__ runs before the "stopped" event is recorded, otherwise
\* it stays behind as an unreferenced Tracker.
SpanFinally(w, sp, elapsed_ns, gc) ==
    LET elapsed_ms == ElapsedMs(elapsed_ns)
        tmp == Len(w.trackers) + 1
        w1  == IF sp.log_end_span
               THEN LET a == TrackerWithFields(w, sp.tracker,
                                 SpanMeta(sp.span_id, sp.name)
                                 @@ ("span.elapsed_ms" :> elapsed_ms))
                        b == TrackerLog(a, tmp, "INFO", "span end")
                    IN  IF gc THEN TrackerDel(b, tmp) ELSE b
               ELSE w
        evt == CreateEvent(w1, w1.trackers[sp.self],
                   SpanMeta(sp.span_id, sp.name)
                   @@ ("span.event" :> "stopped")
                   @@ ("span.elapsed_ms" :> elapsed_ms),
                   "z.span")
        w2  == TrackerRecordEvent(w1, w1.trackers[sp.tracker], evt)
    IN  NoteSpanEvents(w, w2, sp.inv)

\* As SpanLeave, had the code after the yield not been in a finally block.
SpanLeaveNoFinally(w, sp, elapsed_ns, raised, gc) ==
    IF raised THEN w ELSE SpanFinally(w, sp, elapsed_ns, gc)

\* Leaving the with-block of a span, by return or by an exception of the
\* work inside (raised): the generator's try/finally runs the finally block
\* on both paths.
SpanLeave(w, sp, elapsed_ns, raised, gc) ==
    SpanFinally(w, sp, elapsed_ns, gc)

Live(t) == t \in DOMAIN trackers /\ trackers[t].state = "live"

\* A Tracker of an entered span is still referenced by the generator.
InSpan(t) == \E i \in DOMAIN spans : spans[i].self = t \/ spans[i].tracker = t

----------------------------------------------------------------------------
\* Initial state: ztrack.create on an empty result directory.

Init ==
    /\ dry_run \in BOOLEAN
    /\ share_cnt = 0
    /\ span_id = 2000
    /\ reporters = EmptyMap
    /\ files = EmptyMap
    /\ trackers = <<NewTracker([reporter |-> "default", meta |-> EmptyMap,
                                record_log_event |-> "None"], EmptyMap, 1)>>
    /\ spans = <<>>
    /\ deleted = FALSE
    /\ artifact_id = 1000
    /\ callbacks = <<>>
    /\ dirs = IF dry_run THEN {} ELSE {ResultDir, ArtifactsDir}
    /\ exc = ""
    /\ cb_calls = <<>>
    /\ save_calls = <<>>
    /\ art_log = <<>>
    /\ span_log = <<>>
    /\ created = 0
    /\ fin_calls = <<>>
    /\ emitted = <<>>
    /\ terminated = FALSE
    /\ span_evts = <<>>
    /\ misused = FALSE
    /\ batch = <<>>
    /\ last = [op |-> "create", t |-> 1]

----------------------------------------------------------------------------
\* Operations.  Each is one call by the program using the library; misused
\* notes a call on a Tracker already finalized.

Used(t) == misused' = (misused \/ trackers[t].fin > 0)

Handles == 1..Len(trackers)

BatchOf(t) ==
    IF t \in DOMAIN batch THEN batch[t]
    ELSE [items |-> <<>>, done |-> FALSE, commits |-> 0, calls |-> 0]

Clone(t) ==
    /\ Live(t)
    /\ Commit(TrackerClone(World, t))
    /\ Used(t)
    /\ last' = [op |-> "clone", t |-> Len(trackers) + 1]
    /\ UNCHANGED <<spans, deleted, batch>>

WithSettings(t, reporter, meta, rle) ==
    /\ Live(t)
    /\ Commit(TrackerWithSettings(World, t, reporter, meta, rle))
    /\ Used(t)
    /\ last' = [op |-> "with_settings", t |-> Len(trackers) + 1, src |-> t,
                arg |-> [reporter |-> reporter, meta |-> meta,
                         record_log_event |-> rle]]
    /\ UNCHANGED <<spans, deleted, batch>>

WithFields(t, fields) ==
    /\ Live(t)
    /\ Commit(TrackerWithFields(World, t, fields))
    /\ Used(t)
    /\ last' = [op |-> "with_fields", t |-> Len(trackers) + 1, src |-> t,
                arg |-> fields]
    /\ UNCHANGED <<spans, deleted, batch>>

Track(t, fields, meta, commit) ==
    /\ Live(t)
    /\ Commit(TrackerTrack(World, t, fields, meta, commit))
    /\ Used(t)
    /\ batch' = [u \in Handles |->
                    IF u = t
                    THEN [items |-> (IF BatchOf(t).done THEN <<>>
                                     ELSE BatchOf(t).items)
                                    \o <<[fields |-> fields, meta |-> meta]>>,
                          done |-> commit,
                          commits |-> BatchOf(t).commits
                                      + (IF commit THEN 1 ELSE 0),
                          calls |-> BatchOf(t).calls + 1]
                    ELSE BatchOf(u)]
    /\ last' = [op |-> IF commit THEN "track" ELSE "track_defer", t |-> t]
    /\ UNCHANGED <<spans, deleted>>

Log(t, level, msg) ==
    /\ Live(t)
    /\ Commit(TrackerLog(World, t, level, msg))
    /\ Used(t)
    /\ last' = [op |-> "log", t |-> t]
    /\ UNCHANGED <<spans, deleted, batch>>

Artifact(t, save_func, prefix, persist_name, format, meta) ==
    /\ Live(t)
    /\ Commit(TrackerArtifact(World, t, save_func, prefix, persist_name,
                              format, meta))
    /\ Used(t)
    /\ last' = [op |-> "artifact", t |-> t]
    /\ UNCHANGED <<spans, deleted, batch>>

\* Tracker.register_event_callback
RegisterEventCallback(t, cb) ==
    /\ Live(t)
    /\ Commit(RegisterCallback(World, cb))
    /\ Used(t)
    /\ last' = [op |-> "register_event_callback", t |-> t]
    /\ UNCHANGED <<spans, deleted, batch>>

\* with tracker.span(name, log_end_span): entering.
SpanEnter(t, name, log_end_span) ==
    /\ Live(t)
    /\ Commit(SpanStart(World, t, name))
    /\ spans' = Append(spans,
                    [self |-> t, tracker |-> Len(trackers) + 1,
                     span_id |-> ToString(span_id + 1), name |-> name,
                     log_end_span |-> log_end_span,
                     inv |-> Len(span_evts) + 1])
    /\ Used(t)
    /\ last' = [op |-> "span_enter", t |-> t]
    /\ UNCHANGED <<deleted, batch>>

\* Leaving the with-block of entered span i.
SpanExit(i, elapsed_ns, raised, gc) ==
    /\ i \in DOMAIN spans
    /\ Commit(SpanLeave(World, spans[i], elapsed_ns, raised, gc))
    /\ spans' = [j \in 1..(Len(spans) - 1) |->
                    IF j < i THEN spans[j] ELSE spans[j + 1]]
    /\ last' = [op |-> IF raised THEN "span_raise" ELSE "span_exit",
                t |-> spans[i].inv]
    /\ UNCHANGED <<deleted, misused, batch>>

\* EventReporter(name, path) constructed by the program itself, which keeps
\* it under its name; the file's directory has to exist.
ReporterNew(name) ==
    /\ ResultDir \in dirs
    /\ name \notin DOMAIN reporters
    /\ Commit(NewReporter(World, name))
    /\ last' = [op |-> "reporter_new", t |-> 0]
    /\ UNCHANGED <<spans, deleted, misused, batch>>

\* EventReporter.record_event on such a reporter, with an Event the program
\* built.
ReporterRecord(name) ==
    /\ name \in DOMAIN reporters
    /\ Commit(ReporterRecordEvent(World, name,
            [uid |-> reporters[name].evt_id + 1, id |-> "", type |-> "z.tk",
             meta |-> EmptyMap, data |-> EmptyMap, data_of |-> 0]))
    /\ last' = [op |-> "reporter_record_event", t |-> 0]
    /\ UNCHANGED <<spans, deleted, misused, batch>>

\* EventReporter.finalize on such a reporter.
ReporterClose(name) ==
    /\ name \in DOMAIN reporters
    /\ Commit(ReporterFinalize(World, name))
    /\ last' = [op |-> "reporter_finalize", t |-> 0]
    /\ UNCHANGED <<spans, deleted, misused, batch>>

\* Tracker.finalize, called by the owner or by __exit__.
Finalize(t) ==
    /\ Live(t)
    /\ trackers[t].fin < MaxFinalize
    /\ Commit(TrackerFinalize(World, t))
    /\ Used(t)
    /\ last' = [op |-> "finalize", t |-> t]
    /\ UNCHANGED <<spans, deleted, batch>>

\* The interpreter collects a Tracker nothing refers to: __del__.
Del(t) ==
    /\ Live(t)
    /\ ~InSpan(t)
    /\ Commit(TrackerDel(World, t))
    /\ last' = [op |-> "del", t |-> t]
    /\ UNCHANGED <<spans, deleted, misused, batch>>

\* EventRecorder.__del__: no Tracker refers to the recorder any more.
RecorderDel ==
    /\ ~deleted
    /\ \A t \in DOMAIN trackers : trackers[t].state = "dead"
    /\ Commit(RecorderFinalize(World))
    /\ deleted' = TRUE
    /\ last' = [op |-> "recorder_del", t |-> 0]
    /\ UNCHANGED <<spans, misused, batch>>

----------------------------------------------------------------------------
\* The life cycle of the handles of one recorder: clones, tracked events,
\* finalize calls and destruction in every order.

Hello == [name |-> "hello"]

Next ==
    \/ \E t \in Handles : Len(trackers) < MaxTrackers /\ Clone(t)
    \/ \E t \in Handles :
          Len(trackers) < MaxTrackers /\ WithSettings(t, "ai", EmptyMap, "None")
    \/ \E t \in Handles :
          Len(emitted) < MaxEvents /\ Track(t, Hello, EmptyMap, TRUE)
    \/ \E t \in Handles : Finalize(t)
    \/ \E t \in Handles : Del(t)
    \/ RecorderDel

Spec == Init /\ [][Next]_vars

----------------------------------------------------------------------------
\* Claims about the life cycle

\* The handles that have not been finalized, in a Tracker table.
Unfinalized(trs) == {t \in DOMAIN trs : trs[t].fin = 0}

\* Some reporter receives a finalize() call in this step.
ReporterFinalizedInStep ==
    \E i \in DOMAIN fin_calls : fin_calls'[i] > fin_calls[i]

\* C1: no step finalizes a reporter (closing its file) while a Tracker
\* handle of the recorder, the created one or a clone, is still not
\* finalized; every Tracker is used only before its finalize.
C1_NoCloseWhileHandleOpen ==
    [][(~misused' /\ ReporterFinalizedInStep)
        => Unfinalized(trackers') = {}]_vars

\* Every recorded event is a line of its reporter's file, and no reporter
\* holds a buffered event.
AllEventsWritten ==
    /\ \A n \in DOMAIN reporters : reporters[n].buffers = <<>>
    /\ \A i \in DOMAIN emitted :
          /\ FileName(emitted[i].reporter) \in DOMAIN files
          /\ \E j \in DOMAIN files[FileName(emitted[i].reporter)] :
                files[FileName(emitted[i].reporter)][j] = emitted[i].evt

\* C2: once the only Tracker handle of a recorder that is not dry-run has
\* been finalized, every event it tracked is a line of the reporter's
\* file and none is left in a buffer.
C2_FinalizeWritesEvents ==
    (/\ ~dry_run
     /\ ~misused
     /\ Len(trackers) = 1
     /\ trackers[1].fin = 1
     /\ last.op = "finalize"
     /\ emitted # <<>>)
        => AllEventsWritten

\* C3: the ids of the lines of one reporter's file are "1", "2", "3", ...
\* in this order, when every Tracker is used only before its finalize.
C3_FileIdsCountUp ==
    ~misused =>
        \A f \in DOMAIN files :
            \A i \in DOMAIN files[f] : files[f][i].id = ToString(i)

\* The clones (every handle but the created one) exist and each has been
\* finalized exactly once, the last of them in the step that led here.
AllClonesJustFinalized ==
    /\ ~misused
    /\ Len(trackers) >= 2
    /\ \A t \in 2..Len(trackers) : trackers[t].fin = 1
    /\ last.op \in {"finalize", "del"}
    /\ last.t >= 2

\* C4: when the N clones made of a Tracker have all been finalized, every
\* reporter the recorder constructed has received exactly one finalize()
\* call and the reporter map is empty.
C4_FinalizeOncePerReporter ==
    AllClonesJustFinalized =>
        /\ reporters = EmptyMap
        /\ \A i \in DOMAIN fin_calls : fin_calls[i] = 1

\* C5: a finalize call on a Tracker that was finalized before changes
\* neither the share count nor any reporter.
C5_FinalizeIdempotent ==
    [][(\E t \in DOMAIN trackers :
            trackers[t].fin >= 1 /\ trackers'[t].fin = trackers[t].fin + 1)
        => (share_cnt' = share_cnt /\ reporters' = reporters
            /\ fin_calls' = fin_calls /\ files' = files)]_vars

\* C6: once the share count has reached zero and reporters were finalized,
\* no later record_event takes effect: no event is accepted and no
\* reporter is constructed.
C6_TerminalAfterZero ==
    [][(terminated /\ \E i \in DOMAIN fin_calls : fin_calls[i] > 0)
        => (emitted' = emitted /\ created' = created)]_vars

\* C17: the share count is never negative, as long as no Tracker has been
\* finalized more than once or used after its finalize.
C17_ShareCountNotNegative ==
    (~misused /\ \A t \in DOMAIN trackers : trackers[t].fin <= 1)
        => share_cnt >= 0

----------------------------------------------------------------------------
\* Spans: entered on any Tracker (also on the child of an enclosing span),
\* left by return or by an exception, with or without log_end_span, with
\* derived Trackers and tracked events in between.

MaxSpans == 2
MaxSpanTrackers == 4
MaxSpanTracks == 1

SpanNames == {"x", "y"}
UserMeta == [k |-> "v"]

\* One more Tracker is needed by each entered span that logs its end.
Reserved == Cardinality({i \in DOMAIN spans : spans[i].log_end_span})

IsTrackEntry(x) == x.evt.type = "z.tk"

NextSpan ==
    \/ \E t \in Handles, name \in SpanNames, log_end_span \in BOOLEAN :
          /\ Len(span_evts) < MaxSpans
          /\ name = (IF Len(span_evts) % 2 = 0 THEN "x" ELSE "y")
          /\ Len(trackers) + Reserved + (IF log_end_span THEN 2 ELSE 1)
                <= MaxSpanTrackers
          /\ SpanEnter(t, name, log_end_span)
    \/ \E i \in DOMAIN spans, raised \in BOOLEAN, gc \in BOOLEAN :
          /\ gc => spans[i].log_end_span
          /\ SpanExit(i, 2500000, raised, gc)
    \/ \E t \in {1} :
          /\ Len(trackers) + Reserved < MaxSpanTrackers
          /\ Len(trackers) = 1
          /\ WithSettings(t, "", UserMeta, "True")
    \/ \E t \in Handles :
          /\ Len(SelectSeq(emitted, IsTrackEntry)) < MaxSpanTracks
          /\ \E i \in DOMAIN spans : spans[i].tracker = t
          /\ Track(t, Hello, EmptyMap, TRUE)

SpecSpan == Init /\ [][NextSpan]_vars

IsSpanEvent(e) == e.type = "z.span"

\* The "z.span" events span invocation k recorded, in order.
SpanEventsOf(k) ==
    SelectSeq([i \in DOMAIN span_evts[k] |-> emitted[span_evts[k][i]].evt],
              IsSpanEvent)

SpanActive(k) == \E i \in DOMAIN spans : spans[i].inv = k

\* C7: every span invocation records a "started" z.span event on entry and,
\* once left by return or by an exception, exactly one more z.span event,
\* "stopped", with the span.id of the first; no other z.span event exists.
C7_SpanPaired ==
    /\ \A k \in DOMAIN span_evts :
          LET zs == SpanEventsOf(k)
          IN  /\ Len(zs) = IF SpanActive(k) THEN 1 ELSE 2
              /\ zs[1].meta["span.event"] = "started"
              /\ ~SpanActive(k) =>
                    /\ zs[2].meta["span.event"] = "stopped"
                    /\ zs[2].meta["span.id"] = zs[1].meta["span.id"]
    /\ \A i \in DOMAIN emitted :
          IsSpanEvent(emitted[i].evt) =>
              \E k \in DOMAIN span_evts :
                  \E j \in DOMAIN span_evts[k] : span_evts[k][j] = i

\* The second span, entered on the child Tracker of the first (its events
\* are created by a Tracker whose settings carry the first span's id), has
\* just been left by an exception while the first is still open.
C7_Witness ==
    /\ last = [op |-> "span_raise", t |-> 2]
    /\ Len(spans) = 1
    /\ spans[1].inv = 1
    /\ Len(SpanEventsOf(2)) = 2
    /\ SpanEventsOf(2)[1].meta["span.id"] = spans[1].span_id

\* C18: the z.span events of a span invocation carry in span.id the id
\* next_span_id allocated for that invocation and in span.name the name
\* given to it, also for a span entered on the child Tracker of another;
\* the ids of different invocations differ.
C18_SpanIdFresh ==
    /\ \A k \in DOMAIN span_evts :
          \A i \in DOMAIN SpanEventsOf(k) :
              /\ SpanEventsOf(k)[i].meta["span.id"] = span_log[k].span_id
              /\ SpanEventsOf(k)[i].meta["span.name"] = span_log[k].name
    /\ \A k1, k2 \in DOMAIN span_log :
          k1 # k2 => span_log[k1].span_id # span_log[k2].span_id

----------------------------------------------------------------------------
\* The reporters under load: enough events for the buffer to pass the flush
\* threshold, recorded through a Tracker and its clones, with finalize
\* calls and collections in between.

MaxFifoEvents == 12
MaxFifoTrackers == 2

\* Clones are made of the created Tracker, the newest Tracker tracks, and a
\* Tracker is finalized by its owner once before it is collected.
NextFifo ==
    \/ \E t \in {1} : Len(trackers) < MaxFifoTrackers /\ Clone(t)
    \/ \E t \in {Len(trackers)} :
          Len(emitted) < MaxFifoEvents /\ Track(t, Hello, EmptyMap, TRUE)
    \/ \E t \in Handles : trackers[t].fin = 0 /\ Finalize(t)
    \/ \E t \in Handles : Del(t)
    \/ RecorderDel

SpecFifo == Init /\ [][NextFifo]_vars

ReporterNames == {"default", "ai"}

\* The events handed to the reporter called name, in call order.
RECURSIVE CallsOf(_, _)
CallsOf(name, log) ==
    IF log = <<>> THEN <<>>
    ELSE IF Head(log).reporter = name
         THEN <<Head(log).evt>> \o CallsOf(name, Tail(log))
         ELSE CallsOf(name, Tail(log))

\* The lines of the reporter's file followed by the events in its buffer.
Stored(name) ==
    (IF FileName(name) \in DOMAIN files THEN files[FileName(name)] ELSE <<>>)
    \o (IF name \in DOMAIN reporters THEN reporters[name].buffers ELSE <<>>)

\* C8: for each reporter, the lines of its file followed by its buffered
\* events are the events handed to it, in call order, none lost, doubled
\* or moved.
C8_Fifo ==
    ~dry_run => \A name \in ReporterNames : Stored(name) = CallsOf(name, emitted)

\* A reporter has flushed because its buffer passed the threshold, and has
\* buffered a further event since.
C8_Witness ==
    \E name \in DOMAIN reporters :
        /\ Len(files[FileName(name)]) = NumBuffers + 1
        /\ Len(reporters[name].buffers) = 1
        /\ reporters[name].evt_id = NumBuffers + 2
        /\ Len(trackers) = 2

\* The lines of a reporter's file and its buffer, in a file table and a
\* reporter map.
LinesIn(fs, name) == IF FileName(name) \in DOMAIN fs THEN fs[FileName(name)] ELSE <<>>
BufferIn(rs, name) == IF name \in DOMAIN rs THEN rs[name].buffers ELSE <<>>

----------------------------------------------------------------------------
\* Deferred commits: Trackers with a field overlay and settings metadata,
\* track calls with commit false and true.

MaxTrackTrackers == 2
MaxTrackCalls == 3

FieldValues == {"1", "2"}
MetaValues == {"p", "q"}

\* The field overlays given to with_fields and the metadata given to
\* with_settings.
OverlayArgs == {[a |-> "1"]}
SettingMetaArgs == {[k |-> "s"]}

\* The (fields, meta) arguments of the track calls explored: fields on key
\* a or b and no meta, or meta on key k and no fields.
TrackArgs ==
    {[fields |-> f, meta |-> EmptyMap] :
        f \in {[a |-> v] : v \in FieldValues} \cup {[b |-> "2"]}}
    \cup {[fields |-> EmptyMap, meta |-> [k |-> v]] : v \in MetaValues}

\* The track calls made so far on the Trackers 1..n.
RECURSIVE CallsUpTo(_)
CallsUpTo(n) == IF n = 0 THEN 0 ELSE BatchOf(n).calls + CallsUpTo(n - 1)

\* Trackers are derived in a chain, and the newest one tracks.
NextTrack ==
    \/ \E f \in OverlayArgs :
          /\ Len(trackers) < MaxTrackTrackers
          /\ WithFields(Len(trackers), f)
    \/ \E m \in SettingMetaArgs :
          /\ Len(trackers) < MaxTrackTrackers
          /\ WithSettings(Len(trackers), "", m, "None")
    \/ \E a \in TrackArgs, commit \in BOOLEAN :
          /\ CallsUpTo(Len(trackers)) < MaxTrackCalls
          /\ Track(Len(trackers), a.fields, a.meta, commit)

SpecTrack == Init /\ [][NextTrack]_vars

\* The positions of the items that give key k a value.
Giving(items, k, part) == {i \in DOMAIN items : k \in DOMAIN items[i][part]}

Max(S) == CHOOSE x \in S : \A y \in S : y <= x

\* The ordered shallow merge of a base mapping and the part (fields or meta)
\* of each item: a key has the value of the last item that gives it one,
\* otherwise the base's.
OrderedMerge(base, items, part) ==
    [k \in (DOMAIN base) \cup UNION {DOMAIN items[i][part] : i \in DOMAIN items}
        |-> IF Giving(items, k, part) # {}
            THEN items[Max(Giving(items, k, part))][part][k]
            ELSE base[k]]

\* The number of committing track calls on the Trackers 1..n.
RECURSIVE CommitsUpTo(_)
CommitsUpTo(n) == IF n = 0 THEN 0 ELSE BatchOf(n).commits + CommitsUpTo(n - 1)

JustCommitted(t) ==
    /\ last = [op |-> "track", t |-> t]
    /\ BatchOf(t).done

\* C9: track calls with commit false record nothing; the commit records one
\* "z.tk" event whose data is the ordered merge of the Tracker's field
\* overlay and the fields of every call of the batch, and leaves the
\* Tracker's pending items empty.
C9_CommitMergesFields ==
    /\ \A t \in Handles :
          JustCommitted(t) =>
              /\ emitted # <<>>
              /\ emitted[Len(emitted)].evt.type = "z.tk"
              /\ emitted[Len(emitted)].evt.data =
                    OrderedMerge(trackers[t].fields, BatchOf(t).items, "fields")
              /\ trackers[t].tracks_buf = <<>>
    /\ Len(emitted) = CommitsUpTo(Len(trackers))
    /\ \A t \in Handles :
          ~BatchOf(t).done => trackers[t].tracks_buf = BatchOf(t).items

\* A commit after two deferred calls on a Tracker with an overlay: the
\* overlay, the first call and the commit give key a three values in turn,
\* the second call gives key b one.
C9_Witness ==
    \E t \in Handles :
        /\ JustCommitted(t)
        /\ trackers[t].fields = [a |-> "1"]
        /\ Len(BatchOf(t).items) = 3
        /\ BatchOf(t).items[1].fields = [a |-> "2"]
        /\ BatchOf(t).items[2].fields = [b |-> "2"]
        /\ BatchOf(t).items[3].fields = [a |-> "1"]
        /\ emitted[Len(emitted)].evt.data = [a |-> "1", b |-> "2"]

\* C10: the committed event's meta is the ordered merge of the settings'
\* metadata and the meta of every call of the batch: a key given by a call
\* has the value of the last call that gives it.
C10_CommitMergesMeta ==
    \A t \in Handles :
        JustCommitted(t) =>
            emitted[Len(emitted)].evt.meta =
                OrderedMerge(trackers[t].settings.meta, BatchOf(t).items, "meta")

----------------------------------------------------------------------------
\* Event callbacks: registered at any time, returning or raising, with
\* events recorded by track, log and span, through two reporters.

MaxCallbacks == 2
MaxCbEvents == 3
MaxCbTrackers == 3

NextCallback ==
    \/ \E t \in {1}, raises \in BOOLEAN :
          /\ Len(callbacks) < MaxCallbacks
          /\ RegisterEventCallback(t, [raises |-> raises])
    \/ \E t \in {1} :
          /\ Len(trackers) = 1
          /\ WithSettings(t, "ai", EmptyMap, "True")
    \/ \E t \in {1} :
          Len(emitted) < MaxCbEvents /\ Track(t, Hello, EmptyMap, TRUE)
    \/ \E t \in Handles \ {1} :
          Len(emitted) < MaxCbEvents /\ Log(t, "INFO", "msg")
    \/ \E t \in Handles \ {1} :
          /\ Len(emitted) + 1 < MaxCbEvents
          /\ Len(trackers) < MaxCbTrackers
          /\ SpanEnter(t, "x", FALSE)
    \/ \E i \in DOMAIN spans :
          SpanExit(i, 2500000, FALSE, FALSE)

SpecCallback == Init /\ [][NextCallback]_vars

\* The callback invocations due for the events recorded in this step: for
\* each event in turn, every registered callback in registration order.
DueCalls ==
    LET n == Len(callbacks)
        m == Len(emitted') - Len(emitted)
    IN  [j \in 1..(m * n) |->
            LET x == emitted'[Len(emitted) + ((j - 1) \div n) + 1]
                i == ((j - 1) % n) + 1
            IN  [cb |-> i, evt |-> x.evt, reporter |-> x.reporter,
                 caught |-> callbacks[i].raises]]

\* C11: every recorded event, in dry-run and otherwise, is handed with its
\* reporter name to every registered callback in registration order, also
\* after a callback that raised, and the operation that recorded it lets no
\* exception through.
C11_CallbacksIsolated ==
    [][/\ cb_calls' = cb_calls \o DueCalls
       /\ Len(emitted') > Len(emitted) => exc' = ""]_vars

\* In dry-run, an event tracked after two callbacks were registered, the
\* first of which raises: the second was called as well.
C11_Witness ==
    /\ dry_run
    /\ last.op = "track"
    /\ Len(callbacks) = 2
    /\ callbacks[1].raises
    /\ Len(cb_calls) >= 2
    /\ cb_calls[Len(cb_calls)].cb = 2
    /\ cb_calls[Len(cb_calls) - 1].caught
    /\ cb_calls[Len(cb_calls)].evt = emitted[Len(emitted)].evt

----------------------------------------------------------------------------
\* Artifacts and dry-run: save_artifact calls with and without prefix,
\* persist_name and format, with a save_func that returns or raises, among
\* tracked events, clones and finalize calls, in dry-run and not.

MaxArtifacts == 3
MaxArtEvents == 1
MaxArtTrackers == 2

\* The (prefix, persist_name, format, meta) arguments explored.
ArtifactArgs ==
    {[prefix |-> "", persist_name |-> "", format |-> "", meta |-> EmptyMap],
     [prefix |-> "p", persist_name |-> "", format |-> "txt",
      meta |-> [m |-> "1"]],
     [prefix |-> "p", persist_name |-> "cfg", format |-> "yaml",
      meta |-> EmptyMap]}

NextArtifact ==
    \/ \E t \in {1}, a \in ArtifactArgs, save_func \in {"ok", "raises"} :
          /\ Len(art_log) < MaxArtifacts
          /\ Artifact(t, save_func, a.prefix, a.persist_name, a.format, a.meta)
    \/ \E t \in {1} : Len(trackers) < MaxArtTrackers /\ Clone(t)
    \/ \E t \in {1} :
          Len(emitted) < MaxArtEvents /\ Track(t, Hello, EmptyMap, TRUE)
    \/ \E t \in Handles \ {1} : trackers[t].fin = 0 /\ Finalize(t)

SpecArtifact == Init /\ [][NextArtifact]_vars

\* The ArtifactRef due to the i-th save_artifact call of a recorder, from
\* the arguments of the calls alone: the call draws the i-th id after 1000.
RefOf(i) ==
    LET c   == art_log[i]
        fmt == IF c.format = "" THEN "bin" ELSE c.format
    IN  [type |-> "artifact",
         url |-> (IF c.persist_name # "" THEN c.persist_name
                  ELSE (IF c.prefix = "" THEN "data" ELSE c.prefix)
                       \o "_" \o ToString(1000 + i))
                 \o "." \o fmt,
         format |-> fmt,
         meta |-> c.meta]

\* C12: in dry-run no directory and no reporter is created, no file is
\* opened or written and save_func is never called, whatever was recorded,
\* saved or finalized; every save_artifact call returns, and what it
\* returns is what the same sequence of calls returns when not in dry-run:
\* the ArtifactRef fixed by the calls' arguments alone.
C12_DryRunNoEffect ==
    /\ dry_run =>
          /\ dirs = {}
          /\ reporters = EmptyMap
          /\ created = 0
          /\ files = EmptyMap
          /\ save_calls = <<>>
          /\ \A i \in DOMAIN art_log : art_log[i].ret # <<>>
    /\ \A i \in DOMAIN art_log :
          art_log[i].ret # <<>> => art_log[i].ret[1] = RefOf(i)

\* In dry-run: an event was tracked, a handle finalized, and two artifacts
\* saved, the first with a save_func that would raise.
C12_Witness ==
    /\ dry_run
    /\ emitted # <<>>
    /\ \E t \in Handles : trackers[t].fin > 0
    /\ Len(art_log) = 2
    /\ art_log[2].ret = <<[type |-> "artifact", url |-> "p_1002.txt",
                           format |-> "txt", meta |-> [m |-> "1"]]>>

\* The file name save_artifact gives the artifact of call c.
NameOf(c) ==
    (IF c.persist_name # "" THEN c.persist_name
     ELSE (IF c.prefix = "" THEN "data" ELSE c.prefix)
          \o "_" \o ToString(c.id))
    \o "." \o (IF c.format = "" THEN "bin" ELSE c.format)

\* C16: the artifact of a save_artifact call is named persist_name.format
\* when persist_name is given and prefix_id.format otherwise, with prefix
\* "data" and format "bin" by default, in the returned reference and in the
\* path handed to save_func; the ids of the calls of a recorder increase
\* strictly from call to call, whether the call has a persist_name, fails
\* in save_func or runs in dry-run.
C16_ArtifactNaming ==
    /\ \A i \in DOMAIN art_log :
          art_log[i].ret # <<>> => art_log[i].ret[1].url = NameOf(art_log[i])
    /\ ~dry_run =>
          /\ Len(save_calls) = Len(art_log)
          /\ \A i \in DOMAIN art_log :
                save_calls[i] = ArtifactsDir \o "/" \o NameOf(art_log[i])
    /\ \A i, j \in DOMAIN art_log : i < j => art_log[i].id < art_log[j].id

\* Three calls: one with a persist_name, one whose save_func raises, one
\* named by prefix and id, which is the third id.
C16_Witness ==
    /\ ~dry_run
    /\ Len(art_log) = 3
    /\ art_log[1].ret # <<>>
    /\ art_log[1].ret[1].url = "cfg.yaml"
    /\ art_log[2].ret = <<>>
    /\ art_log[3].ret # <<>>
    /\ art_log[3].ret[1].url = "data_1003.bin"

----------------------------------------------------------------------------
\* Derived Trackers: with_fields, with_settings and clone on any Tracker,
\* with track and log calls on the Trackers derived.

MaxCowTrackers == 3
MaxCowEvents == 2

CowFieldArgs == {[a |-> "1"], [a |-> "2"], [b |-> "1"]}

NextCow ==
    \/ \E t \in Handles, f \in CowFieldArgs :
          Len(trackers) < MaxCowTrackers /\ WithFields(t, f)
    \/ \E t \in Handles :
          /\ Len(trackers) < MaxCowTrackers
          /\ WithSettings(t, "", UserMeta, "True")
    \/ \E t \in Handles : Len(trackers) < MaxCowTrackers /\ Clone(t)
    \/ \E t \in Handles \ {1} :
          Len(emitted) < MaxCowEvents /\ Track(t, Hello, EmptyMap, TRUE)
    \/ \E t \in Handles \ {1} :
          Len(emitted) < MaxCowEvents /\ Log(t, "INFO", "msg")

SpecCow == Init /\ [][NextCow]_vars

\* C13: the Tracker with_fields returns has as its overlay the union of the
\* overlay of the Tracker it was called on and the mapping given, the
\* mapping's value on a common key; and no step (with_fields,
\* with_settings, clone, track, log) changes the fields or the settings of
\* a Tracker that exists.
C13_CopyOnWrite ==
    [][/\ last'.op = "with_fields" =>
            LET new == trackers'[last'.t].fields
                old == trackers[last'.src].fields
            IN  /\ DOMAIN new = (DOMAIN old) \cup (DOMAIN last'.arg)
                /\ \A k \in DOMAIN new :
                      new[k] = IF k \in DOMAIN last'.arg THEN last'.arg[k]
                               ELSE old[k]
       /\ \A u \in DOMAIN trackers :
            /\ trackers'[u].fields = trackers[u].fields
            /\ trackers'[u].settings = trackers[u].settings]_vars

\* with_fields({a: 1}).with_fields({a: 2}) has given {a: 2} and left the
\* first Tracker with {a: 1}, after the first had tracked an event.
C13_Witness ==
    /\ last.op = "with_fields"
    /\ last.arg = [a |-> "2"]
    /\ trackers[last.t].fields = [a |-> "2"]
    /\ trackers[last.src].fields = [a |-> "1"]
    /\ trackers[1].fields = EmptyMap
    /\ \E i \in DOMAIN emitted :
          /\ emitted[i].evt.type = "z.tk"
          /\ emitted[i].evt.data = [a |-> "1", name |-> "hello"]

----------------------------------------------------------------------------
\* An EventReporter driven directly: constructed, given events, finalized,
\* and finalized again.

MaxRepEvents == 11
MaxRepFinalize == 2

NextReporter ==
    \/ \E name \in ReporterNames : ReporterNew(name)
    \/ \E name \in ReporterNames :
          /\ name \in DOMAIN reporters
          /\ reporters[name].evt_id < MaxRepEvents
          /\ ReporterRecord(name)
    \/ \E name \in ReporterNames :
          /\ name \in DOMAIN reporters
          /\ fin_calls[reporters[name].oid] < MaxRepFinalize
          /\ ReporterClose(name)

SpecReporter == Init /\ [][NextReporter]_vars

\* C14: a finalize call on a reporter returns, leaves the reporter closed
\* with an empty buffer and the file with the buffered events appended; on
\* a reporter already finalized it changes neither the file nor the closed
\* state.
C14_ReporterFinalizeIdempotent ==
    [][\A name \in DOMAIN reporters :
          fin_calls'[reporters[name].oid] > fin_calls[reporters[name].oid] =>
              /\ exc' = ""
              /\ ~reporters'[name].open
              /\ reporters'[name].buffers = <<>>
              /\ files'[FileName(name)] =
                    files[FileName(name)] \o reporters[name].buffers
              /\ ~reporters[name].open => files' = files]_vars

----------------------------------------------------------------------------
\* TrackerSetting.merge on every pair of settings the arguments below give,
\* applied by with_settings.

MaxMergeTrackers == 3

MergeMetaArgs == {EmptyMap, [k |-> "s"], [k |-> "t"], [j |-> "s"]}

NextMerge ==
    \E t \in Handles, reporter \in {"", "ai"}, meta \in MergeMetaArgs,
       rle \in {"None", "True", "False"} :
        /\ Len(trackers) < MaxMergeTrackers
        /\ WithSettings(t, reporter, meta, rle)

SpecMerge == Init /\ [][NextMerge]_vars

\* C15: merge(a, b) has the reporter of b unless that is empty, then the
\* one of a; as meta the keys of both with b's value on a common key; as
\* record_log_event b's value when b has True or False, otherwise a's; and
\* a is as before.
C15_SettingMerge ==
    [][last'.op = "with_settings" =>
        LET a == trackers[last'.src].settings
            b == last'.arg
            r == trackers'[last'.t].settings
        IN  /\ r.reporter = IF b.reporter = "" THEN a.reporter ELSE b.reporter
            /\ DOMAIN r.meta = (DOMAIN a.meta) \cup (DOMAIN b.meta)
            /\ \A k \in DOMAIN r.meta :
                  r.meta[k] = IF k \in DOMAIN b.meta THEN b.meta[k]
                              ELSE a.meta[k]
            /\ r.record_log_event =
                  IF b.record_log_event \in {"True", "False"}
                  THEN b.record_log_event ELSE a.record_log_event
            /\ trackers'[last'.src].settings = a]_vars

\* Settings with reporter "ai", meta {k: s} and record_log_event False
\* merged with settings that have no reporter, meta {k: t} and no
\* record_log_event.
C15_Witness ==
    /\ last.op = "with_settings"
    /\ last.arg = [reporter |-> "", meta |-> [k |-> "t"],
                   record_log_event |-> "None"]
    /\ trackers[last.src].settings =
          [reporter |-> "ai", meta |-> [k |-> "s"],
           record_log_event |-> "False"]
    /\ trackers[last.t].settings =
          [reporter |-> "ai", meta |-> [k |-> "t"],
           record_log_event |-> "False"]

----------------------------------------------------------------------------
\* Pending items: Trackers derived from one another, each with track calls
\* of its own, deferred and committing, in every interleaving.

MaxPendTrackers == 3
MaxPendCalls == 3

\* The fields given to a track call on Tracker t: Tracker 2 contributes to
\* key b, every other Tracker to key a.
PendArg(t) == IF t = 2 THEN [b |-> "2"] ELSE [a |-> "1"]

NextPending ==
    \/ \E t \in Handles : Len(trackers) < MaxPendTrackers /\ Clone(t)
    \/ \E t \in {1}, f \in OverlayArgs :
          Len(trackers) < MaxPendTrackers /\ WithFields(t, f)
    \/ \E t \in {1}, m \in SettingMetaArgs :
          Len(trackers) < MaxPendTrackers /\ WithSettings(t, "", m, "None")
    \/ \E t \in Handles, commit \in BOOLEAN :
          /\ CallsUpTo(Len(trackers)) < MaxPendCalls
          /\ Track(t, PendArg(t), EmptyMap, commit)

SpecPending == Init /\ [][NextPending]_vars

\* C20: the Tracker clone, with_settings or with_fields returns has no
\* pending items; a track call on a Tracker changes the pending items of
\* no other Tracker, and the event of a commit has as data the Tracker's
\* overlay merged with the fields of its own batch only.
C20_PendingPrivate ==
    [][/\ last'.op \in {"clone", "with_settings", "with_fields"} =>
            trackers'[last'.t].tracks_buf = <<>>
       /\ last'.op \in {"track", "track_defer"} =>
            \A u \in DOMAIN trackers :
                u # last'.t => trackers'[u].tracks_buf = trackers[u].tracks_buf
       /\ last'.op = "track" =>
            /\ Len(emitted') = Len(emitted) + 1
            /\ emitted'[Len(emitted')].evt.data =
                  OrderedMerge(trackers[last'.t].fields,
                               batch'[last'.t].items, "fields")]_vars

\* Tracker 2, derived from Tracker 1 while that had {a: 1} pending, has
\* committed {b: 2} while Tracker 1 and its own clone, Tracker 3, each hold
\* a pending {a: 1}: the event has b only, and both still hold their item.
C20_Witness ==
    /\ last = [op |-> "track", t |-> 2]
    /\ Len(trackers) = 3
    /\ trackers[1].tracks_buf = <<[fields |-> [a |-> "1"], meta |-> EmptyMap]>>
    /\ trackers[3].tracks_buf = <<[fields |-> [a |-> "1"], meta |-> EmptyMap]>>
    /\ trackers[2].tracks_buf = <<>>
    /\ trackers[2].fields = EmptyMap
    /\ emitted[Len(emitted)].evt.data = [b |-> "2"]

====
